---- MODULE Spec2Model ----
(***************************************************************************)
(* Model of src/casos.py, the Streamlit dashboard of leishmaniasis         *)
(* notifications.  The script is re-executed from its first line on every  *)
(* widget interaction; one run is modelled as a chain of steps (one per    *)
(* section of the script), and a widget interaction, at the end of a run   *)
(* or in the middle of it, starts the next run.                            *)
(*                                                                         *)
(* A DataFrame is a sequence of records (its rows, in order).  A missing   *)
(* value is NaN in a numeric column and None in a text column; comparisons *)
(* with a missing value are false, as in pandas.                           *)
(***************************************************************************)
EXTENDS Integers, Sequences, FiniteSets

\* ------------------------------------------------------------------------
\* Missing values
\* ------------------------------------------------------------------------

\* NaN: the missing value of a numeric column (year, id, coordinates, ...).
NaN == -1

\* None: the missing value of a text column (uf, nome_municipio).
None == "<NA>"

\* NaT: the missing timestamp that to_datetime(errors="coerce") produces.
NaT == <<0, 0, 0>>

\* Series == scalar: elementwise equality, false when either side is missing.
eq(a, b) == a # NaN /\ b # NaN /\ a = b

\* ------------------------------------------------------------------------
\* Text order (Python compares str by code point); the texts of the model,
\* listed in ascending order.
\* ------------------------------------------------------------------------
Textos ==
  << "AM", "Araxa", "BA", "Betim", "Betin", "Caxias", "Curvelo", "Diamantina",
     "Ipatinga", "Itabira", "Lavras", "MG", "Patos", "SP", "Sabara", "Santos",
     "Uberaba" >>

Rank(s) == CHOOSE i \in 1..Len(Textos) : Textos[i] = s

\* ------------------------------------------------------------------------
\* Sequence helpers (row selection keeps the order of the rows)
\* ------------------------------------------------------------------------

\* The rows of s at the positions of I between lo and hi, in the order of s.
RECURSIVE RowsEntre(_, _, _, _)
RowsEntre(s, I, lo, hi) ==
  IF lo > hi THEN <<>>
  ELSE IF lo = hi THEN (IF lo \in I THEN << s[lo] >> ELSE <<>>)
  ELSE LET mid == (lo + hi) \div 2
       IN RowsEntre(s, I, lo, mid) \o RowsEntre(s, I, mid + 1, hi)

\* The rows of s at the positions I, in the order of s (boolean indexing).
Rows(s, I) == RowsEntre(s, I, 1, Len(s))

\* The sum of the column "casos" over the rows lo..hi of s.
RECURSIVE SumEntre(_, _, _)
SumEntre(s, lo, hi) ==
  IF lo > hi THEN 0
  ELSE IF lo = hi THEN s[lo].casos
  ELSE LET mid == (lo + hi) \div 2
       IN SumEntre(s, lo, mid) + SumEntre(s, mid + 1, hi)

\* Series.sum() of the column "casos".
SumCasos(s) == SumEntre(s, 1, Len(s))

\* The elements of the set S as a sequence in ascending order of less, a
\* function from pairs of elements to BOOLEAN.
Sorted(S, less) ==
  LET F[k \in 0..Cardinality(S)] ==
        IF k = 0 THEN <<>>
        ELSE Append(F[k - 1],
                    CHOOSE x \in S : Cardinality({y \in S : less[<<y, x>>]}) = k - 1)
  IN F[Cardinality(S)]

\* DataFrame.head(n)
head(s, n) == SubSeq(s, 1, IF Len(s) < n THEN Len(s) ELSE n)

\* ------------------------------------------------------------------------
\* Dates
\* ------------------------------------------------------------------------
DiasNoMes(y, m) ==
  IF m \in {4, 6, 9, 11} THEN 30
  ELSE IF m = 2
       THEN (IF (y % 4 = 0 /\ y % 100 # 0) \/ y % 400 = 0 THEN 29 ELSE 28)
       ELSE 31

\* pd.to_datetime(value, errors="coerce"): a value that is no calendar date
\* becomes NaT.
to_datetime(d) ==
  IF d[1] >= 1 /\ d[2] \in 1..12 /\ d[3] >= 1 /\ d[3] <= DiasNoMes(d[1], d[2])
  THEN d
  ELSE NaT

\* Series.dt.year: NaN for NaT.
dt_year(d) == IF d = NaT THEN NaN ELSE d[1]

\* ------------------------------------------------------------------------
\* carregar_dados: the loaded table
\* ------------------------------------------------------------------------

\* DataFrame.drop_duplicates(subset=["id_municip"]): the first row of every
\* id is kept (missing ids count as one id).
drop_duplicates(s) ==
  LET ids == {s[i].id_municip : i \in DOMAIN s}
      primeira_de(id) == CHOOSE i \in DOMAIN s :
                           /\ s[i].id_municip = id
                           /\ \A j \in 1..(i - 1) : s[j].id_municip # id
  IN Rows(s, {primeira_de(id) : id \in ids})

\* The row of the (deduplicated) right table that a left merge on id_municip
\* joins to id; 0 when there is none.  Missing keys match each other.
Match(right, id) ==
  IF \E k \in DOMAIN right : right[k].id_municip = id
  THEN CHOOSE k \in DOMAIN right : right[k].id_municip = id
  ELSE 0

\* Variant: drop_duplicates before dropna, so that only the first row of an
\* id can give its name.
referencia_primeira_linha(t) ==
  LET first == drop_duplicates(t)
      named == Rows(first, {i \in DOMAIN first : first[i].nome_municipio # None})
  IN [k \in DOMAIN named |->
        [id_municip |-> named[k].id_municip,
         nome_municipio |-> named[k].nome_municipio]]

\* referencia_municipios: one (id, name) per id, from the first row of the
\* id among the rows whose name is not missing.
referencia_municipios(t) ==
  LET named == Rows(t, {i \in DOMAIN t : t[i].nome_municipio # None})
      first == drop_duplicates(named)
  IN [k \in DOMAIN first |->
        [id_municip |-> first[k].id_municip,
         nome_municipio |-> first[k].nome_municipio]]

\* The name a row gets from the left merge with referencia_municipios.
NomeDaReferencia(ref, id) ==
  IF Match(ref, id) = 0 THEN None ELSE ref[Match(ref, id)].nome_municipio

\* carregar_dados(): date parsed, year derived, casos = 1, and the name
\* column replaced by the name of the reference.  The merge keeps the rows
\* of the left table in order and numbers them 0, 1, ... (idx).
carregar_dados(t) ==
  LET ref == referencia_municipios(t)
  IN [i \in DOMAIN t |->
        [idx                 |-> i - 1,
         id_municip          |-> t[i].id_municip,
         uf                  |-> t[i].uf,
         dt_notific          |-> to_datetime(t[i].dt_notific),
         ano                 |-> dt_year(to_datetime(t[i].dt_notific)),
         casos               |-> 1,
         nome_municipio      |-> NomeDaReferencia(ref, t[i].id_municip),
         lat_locali          |-> t[i].lat_locali,
         long_local          |-> t[i].long_local,
         precipitacao_mensal |-> t[i].precipitacao_mensal,
         saneamento_basico   |-> t[i].saneamento_basico,
         idh                 |-> t[i].idh,
         renda_media         |-> t[i].renda_media]]

\* ------------------------------------------------------------------------
\* Filters
\* ------------------------------------------------------------------------

\* The options of the year selectbox: sorted(df["ano"].dropna().unique()).
OpcoesAno(d) ==
  LET S == {d[i].ano : i \in DOMAIN d} \ {NaN}
      less == [p \in S \X S |-> p[1] < p[2]]
  IN Sorted(S, less)

\* The options of the state multiselect: df["uf"].dropna().unique().
OpcoesEstado(d) == {d[i].uf : i \in DOMAIN d} \ {None}

\* The options of the variable selectbox.
OpcoesVariavel ==
  << "precipitacao_mensal", "saneamento_basico", "idh", "renda_media" >>

\* Variant: the year is compared with >= instead of ==.
filtrar_desde(d, a, e) ==
  LET porAno == Rows(d, {i \in DOMAIN d : d[i].ano # NaN /\ a # NaN /\ d[i].ano >= a})
  IN IF e # {}
     THEN Rows(porAno, {i \in DOMAIN porAno : porAno[i].uf \in e})
     ELSE porAno

\* Variant: the state restriction lets rows without state through.
filtrar_uf_ausente(d, a, e) ==
  LET porAno == Rows(d, {i \in DOMAIN d : eq(d[i].ano, a)})
  IN IF e # {}
     THEN Rows(porAno, {i \in DOMAIN porAno :
                          porAno[i].uf \in e \/ porAno[i].uf = None})
     ELSE porAno

\* df[df["ano"] == ano], then, when estado is not empty,
\* df_filtro[df_filtro["uf"].isin(estado)].
filtrar(d, a, e) ==
  LET porAno == Rows(d, {i \in DOMAIN d : eq(d[i].ano, a)})
  IN IF e # {}
     THEN Rows(porAno, {i \in DOMAIN porAno : porAno[i].uf \in e})
     ELSE porAno

\* ------------------------------------------------------------------------
\* Sorting
\* ------------------------------------------------------------------------

\* The column "casos" of s: the values that sort_values sorts.
Casos(s) == [k \in DOMAIN s |-> s[k].casos]

\* The orders in which a sort that is not stable may leave the positions of
\* the values a: descending values, the positions of equal values in any
\* order.
Ordens(a) ==
  LET E == {i \in DOMAIN a : \E j \in DOMAIN a : j # i /\ a[j] = a[i]}
      R == {r \in [E -> 1..Cardinality(E)] :
              \A i \in E : \A j \in E : r[i] = r[j] => i = j}
      antes(r) == [p \in (DOMAIN a) \X (DOMAIN a) |->
                     \/ a[p[1]] > a[p[2]]
                     \/ /\ p[1] # p[2]
                        /\ a[p[1]] = a[p[2]]
                        /\ r[p[1]] < r[p[2]]]
  IN {Sorted(DOMAIN a, antes(r)) : r \in R}

\* DataFrame.sort_values("casos", ascending=False).  The sort is pandas'
\* default, numpy's quicksort, which is not stable: the order in which it
\* leaves rows of equal casos depends on the length and the values of the
\* whole column and on the kernel the build of numpy runs (the scalar
\* quicksort or a vectorised one), and is the same every time the build
\* sorts the same column.  A build b is the order it gives to each column:
\* b[a][k] is the position, in a, of the k-th value of the sorted column.
sort_values(s, b) ==
  LET pos == b[Casos(s)]
  IN [k \in DOMAIN s |-> s[pos[k]]]

\* ------------------------------------------------------------------------
\* Aggregates
\* ------------------------------------------------------------------------

\* groupby("uf")["casos"].sum().reset_index(): one row per state, in
\* ascending order of the state; rows with a missing state form no group.
groupby_uf(f) ==
  LET S == {f[i].uf : i \in DOMAIN f} \ {None}
      less == [p \in S \X S |-> Rank(p[1]) < Rank(p[2])]
      keys == Sorted(S, less)
  IN [k \in DOMAIN keys |->
        [uf |-> keys[k],
         casos |-> SumCasos(Rows(f, {i \in DOMAIN f : f[i].uf = keys[k]}))]]

\* casos_estado
casos_estado_de(f, b) == sort_values(groupby_uf(f), b)

\* groupby(["nome_municipio", "uf"], as_index=False)["casos"].sum(): one row
\* per (name, state), ascending by name and then state; rows with a missing
\* name or a missing state form no group.
groupby_nome_uf(f) ==
  LET S == {<<f[i].nome_municipio, f[i].uf>> : i \in DOMAIN f}
      less == [p \in S \X S |->
                 \/ Rank(p[1][1]) < Rank(p[2][1])
                 \/ p[1][1] = p[2][1] /\ Rank(p[1][2]) < Rank(p[2][2])]
      keys == Sorted({p \in S : p[1] # None /\ p[2] # None}, less)
  IN [k \in DOMAIN keys |->
        [nome_municipio |-> keys[k][1],
         uf |-> keys[k][2],
         casos |-> SumCasos(Rows(f, {i \in DOMAIN f :
                     /\ f[i].nome_municipio = keys[k][1]
                     /\ f[i].uf = keys[k][2]}))]]

\* head(20)
TopN == 20

\* casos_municipio
casos_municipio_de(f, b) ==
  LET comNome == Rows(f, {i \in DOMAIN f : f[i].nome_municipio # None})
  IN head(sort_values(groupby_nome_uf(comNome), b), TopN)

\* groupby("id_municip")["casos"].sum().reset_index(): one row per id, in
\* ascending order; rows with a missing id form no group.
groupby_id(f) ==
  LET S == {f[i].id_municip : i \in DOMAIN f} \ {NaN}
      less == [p \in S \X S |-> p[1] < p[2]]
      keys == Sorted(S, less)
  IN [k \in DOMAIN keys |->
        [id_municip |-> keys[k],
         casos |-> SumCasos(Rows(f, {i \in DOMAIN f :
                                       f[i].id_municip = keys[k]}))]]

\* geo_base: the first row of every id in the loaded table.
geo_base(d) == drop_duplicates(d)

\* Variant: the rows without coordinates are dropped before the totals are
\* taken, and the coordinates are those of the filtered rows themselves.
casos_mapa_sem_referencia(f, d) ==
  LET c == Rows(f, {i \in DOMAIN f :
                      f[i].lat_locali # NaN /\ f[i].long_local # NaN})
      g == groupby_id(c)
      base == drop_duplicates(c)
  IN [k \in DOMAIN g |->
        LET r == Match(base, g[k].id_municip)
        IN [id_municip     |-> g[k].id_municip,
            casos          |-> g[k].casos,
            nome_municipio |-> base[r].nome_municipio,
            uf             |-> base[r].uf,
            lat_locali     |-> base[r].lat_locali,
            long_local     |-> base[r].long_local]]

\* casos_mapa: totals per id, left merge with geo_base, then
\* dropna(subset=["lat_locali", "long_local"]).
casos_mapa_de(f, d) ==
  LET g == groupby_id(f)
      base == geo_base(d)
      m == [k \in DOMAIN g |->
              LET r == Match(base, g[k].id_municip)
              IN [id_municip     |-> g[k].id_municip,
                  casos          |-> g[k].casos,
                  nome_municipio |-> IF r = 0 THEN None
                                     ELSE base[r].nome_municipio,
                  uf             |-> IF r = 0 THEN None ELSE base[r].uf,
                  lat_locali     |-> IF r = 0 THEN NaN ELSE base[r].lat_locali,
                  long_local     |-> IF r = 0 THEN NaN ELSE base[r].long_local]]
  IN Rows(m, {k \in DOMAIN m : m[k].lat_locali # NaN /\ m[k].long_local # NaN})

\* base_estrutural: the first row of every id in the loaded table.
base_estrutural(d) == drop_duplicates(d)

\* casos_variaveis before the variable is chosen: totals per id, left merge
\* with base_estrutural.
casos_variaveis_base(f, d) ==
  LET g == groupby_id(f)
      base == base_estrutural(d)
  IN [k \in DOMAIN g |->
        LET r == Match(base, g[k].id_municip)
        IN [id_municip          |-> g[k].id_municip,
            casos               |-> g[k].casos,
            uf                  |-> IF r = 0 THEN None ELSE base[r].uf,
            precipitacao_mensal |-> IF r = 0 THEN NaN
                                    ELSE base[r].precipitacao_mensal,
            saneamento_basico   |-> IF r = 0 THEN NaN
                                    ELSE base[r].saneamento_basico,
            idh                 |-> IF r = 0 THEN NaN ELSE base[r].idh,
            renda_media         |-> IF r = 0 THEN NaN
                                    ELSE base[r].renda_media]]

\* casos_variaveis.dropna(subset=[variavel])
dropna_variavel(m, v) == Rows(m, {k \in DOMAIN m : m[k][v] # NaN})

\* casos_variaveis at the end of its section.
casos_variaveis_de(f, d, v) == dropna_variavel(casos_variaveis_base(f, d), v)

\* The three indicators of the metrics row; nunique() skips missing values.
indicadores_de(f) ==
  [total_casos      |-> SumCasos(f),
   total_estados    |-> Cardinality({f[i].uf : i \in DOMAIN f} \ {None}),
   total_municipios |-> Cardinality({f[i].id_municip : i \in DOMAIN f} \ {NaN})]

\* ------------------------------------------------------------------------
\* The contents of the parquet file: the tables the model is run on
\* ------------------------------------------------------------------------

\* Longest table built from Linhas.
MaxRows == 2

\* Number of (name, state) groups of the large table: more than TopN.
NumGrupos == 21

D2019 == <<2019, 3, 10>>
D2020 == <<2020, 7, 5>>
DRuim == <<2020, 2, 30>>

Linha(id, uf, dt, nome, lat, long, p, s, i, r) ==
  [id_municip |-> id, uf |-> uf, dt_notific |-> dt, nome_municipio |-> nome,
   lat_locali |-> lat, long_local |-> long, precipitacao_mensal |-> p,
   saneamento_basico |-> s, idh |-> i, renda_media |-> r]

\* Rows of two municipalities (1: Betim, 2: Araxa) that differ in what is
\* missing or inconsistent: state, date, name, coordinates, variables, id.
Linhas ==
  { Linha(1,   "MG", D2020, "Betim",  10,  20,  5,   6,   7,   8),
    Linha(1,   "MG", D2019, "Betin",  NaN, 20,  5,   6,   7,   8),
    Linha(1,   None, D2020, None,     10,  NaN, NaN, 6,   7,   8),
    Linha(2,   "SP", D2020, "Araxa",  11,  21,  5,   6,   7,   8),
    Linha(2,   "SP", DRuim, None,     NaN, NaN, NaN, NaN, NaN, NaN),
    Linha(2,   "MG", D2020, "Araxa",  11,  21,  5,   6,   NaN, 8),
    Linha(2,   None, D2020, "Araxa",  11,  21,  5,   6,   7,   8),
    Linha(NaN, "SP", D2020, "Santos", 12,  22,  5,   6,   7,   8) }

TabelasPequenas == UNION {[1..n -> Linhas] : n \in 0..MaxRows}

\* The scenario of the specification: (A, SP, 2020), (B, SP, 2020),
\* (A, SP, 2019).
Cenario ==
  << Linha(1, "SP", D2020, "Betim", 10, 20, 5, 6, 7, 8),
     Linha(2, "SP", D2020, "Araxa", 11, 21, 5, 6, 7, 8),
     Linha(1, "SP", D2019, "Betim", 10, 20, 5, 6, 7, 8) >>

\* The large table: group g is municipality g, whose name and state are the
\* g-th pair of NomesGrandes x UFsGrandes in ascending order.
NomesGrandes ==
  << "Araxa", "Betim", "Caxias", "Curvelo", "Diamantina", "Ipatinga",
     "Itabira", "Lavras", "Patos", "Sabara", "Uberaba" >>
UFsGrandes == << "AM", "BA" >>

LinhaGrande(g, dt) ==
  Linha(g, UFsGrandes[((g - 1) % 2) + 1], dt, NomesGrandes[((g - 1) \div 2) + 1],
        IF g % 5 = 0 THEN NaN ELSE g, 50 + g, g, g, IF g % 2 = 0 THEN NaN ELSE g, g)

\* The number of rows of group g: one for each of the groups 1 and 2, and a
\* number of its own, 2, 3, ..., for each of the others.
LinhasDoGrupo(g) == IF g <= 2 THEN 1 ELSE g - 1

\* The row of group 1, then the rows of the groups NumGrupos, ..., 2, then
\* rows of a municipality without state and of one without name, all of
\* 2020, then a row of 2019 for each of the groups 2 and 1.  In 2020 the
\* groups of equal casos are the first of the order of the keys, and the
\* totals of the states differ; in 2019 there are only two groups, of equal
\* casos.
TabelaGrande ==
  LET F[g \in 1..NumGrupos] ==
        IF g = 1 THEN <<>>
        ELSE [k \in 1..LinhasDoGrupo(g) |-> LinhaGrande(g, D2020)] \o F[g - 1]
  IN << LinhaGrande(1, D2020) >> \o F[NumGrupos]
     \o [k \in 1..4 |-> Linha(90, None, D2020, "Santos", 12, 22, 5, 6, 7, 8)]
     \o << Linha(91, "BA", D2020, None, 12, 22, 5, 6, 7, 8) >>
     \o << LinhaGrande(2, D2019), LinhaGrande(1, D2019) >>

\* Two municipalities with one row in each of two years, first Betim in
\* 2020 and first Araxa in 2019: the sort gets the same column in both
\* years.
Espelho ==
  << Linha(1, "MG", D2020, "Betim", 10, 20, 5, 6, 7, 8),
     Linha(2, "SP", D2020, "Araxa", 11, 21, 5, 6, 7, 8),
     Linha(2, "SP", D2019, "Araxa", 11, 21, 5, 6, 7, 8),
     Linha(1, "MG", D2019, "Betim", 10, 20, 5, 6, 7, 8) >>

Tabelas == TabelasPequenas \cup {Cenario, Espelho, TabelaGrande}

\* The columns that the sorts of the runs over the table t get, for every
\* selection of year and states.
ColunasDe(t) ==
  LET d == carregar_dados(t)
  IN UNION {
       LET f == filtrar(d, a, e)
           comNome == Rows(f, {i \in DOMAIN f : f[i].nome_municipio # None})
       IN {Casos(groupby_uf(f)), Casos(groupby_nome_uf(comNome))}
       : <<a, e>> \in {d[i].ano : i \in DOMAIN d} \X SUBSET OpcoesEstado(d)}

\* The builds over the columns A: one for every choice of an order for each
\* column.
RECURSIVE BuildsSobre(_)
BuildsSobre(A) ==
  IF A = {} THEN {<<>>}
  ELSE LET a == CHOOSE x \in A : TRUE
       IN {[x \in A |-> IF x = a THEN o ELSE b[x]] :
             b \in BuildsSobre(A \ {a}), o \in Ordens(a)}

\* The builds that can be told apart on the table t.
Builds(t) == BuildsSobre(ColunasDe(t))

\* ------------------------------------------------------------------------
\* State
\* ------------------------------------------------------------------------
VARIABLES
  raw,              \* the rows of leishmaniose_mega_tratada.parquet
  build,            \* the order this build of numpy gives to each column
  cache_ok, cache,  \* st.cache_data: whether carregar_dados has run, its result
  pc,               \* the section of the script the current run is at
  df,               \* the loaded table of the current run
  ano, estado, variavel,   \* the widgets' values (NaN, {}, None: not set yet)
  df_filtro,
  indicadores,
  casos_estado, casos_municipio, casos_mapa, casos_variaveis,
  tela,             \* what the current run has put on the page, in order
  primeira,         \* history: << what the first run computed >>, or
                    \* NaoConcluida when it did not reach its end
  pagina            \* the widgets that are on the page

vars ==
  << raw, build, cache_ok, cache, pc, df, ano, estado, variavel, df_filtro,
     indicadores, casos_estado, casos_municipio, casos_mapa, casos_variaveis,
     tela, primeira, pagina >>

\* The value of a script variable that the current run has not assigned yet.
NaoCalculado == << "nao calculado" >>

\* The history of a session whose first run was stopped or abandoned.
NaoConcluida == << [concluida |-> FALSE] >>

SemIndicadores ==
  [total_casos |-> NaN, total_estados |-> NaN, total_municipios |-> NaN]

Init ==
  /\ raw \in Tabelas
  /\ build \in Builds(raw)
  /\ cache_ok = FALSE
  /\ cache = <<>>
  /\ pc = "carregar"
  /\ df = <<>>
  /\ ano = NaN
  /\ estado = {}
  /\ variavel = None
  /\ df_filtro = <<>>
  /\ indicadores = SemIndicadores
  /\ casos_estado = NaoCalculado
  /\ casos_municipio = NaoCalculado
  /\ casos_mapa = NaoCalculado
  /\ casos_variaveis = NaoCalculado
  /\ tela = <<>>
  /\ primeira = <<>>
  /\ pagina = {}

\* ------------------------------------------------------------------------
\* One run of the script
\* ------------------------------------------------------------------------

\* df = carregar_dados(): computed on the first run, served from the cache
\* of st.cache_data afterwards.
CarregarDados ==
  /\ pc = "carregar"
  /\ IF cache_ok
     THEN /\ df' = cache
          /\ UNCHANGED << cache_ok, cache >>
     ELSE /\ df' = carregar_dados(raw)
          /\ cache' = carregar_dados(raw)
          /\ cache_ok' = TRUE
  /\ pc' = "sel_ano"
  /\ UNCHANGED << raw, build, ano, estado, variavel, df_filtro, indicadores,
                  casos_estado, casos_municipio, casos_mapa, casos_variaveis,
                  tela, primeira, pagina >>

\* The value the year selectbox returns: the user's choice, or the first
\* option when nothing was chosen yet (None when there is no option).
ValorAno(d, a) ==
  IF a # NaN THEN a
  ELSE IF Len(OpcoesAno(d)) > 0 THEN OpcoesAno(d)[1] ELSE NaN

\* The sidebar: its header and the year selectbox.
SelecaoAno ==
  /\ pc = "sel_ano"
  /\ ano' = ValorAno(df, ano)
  /\ pagina' = pagina \cup {"ano"}
  /\ pc' = "sel_estado"
  /\ UNCHANGED << raw, build, cache_ok, cache, df, estado, variavel,
                  df_filtro, indicadores, casos_estado, casos_municipio,
                  casos_mapa, casos_variaveis, tela, primeira >>

\* The state multiselect: it returns the user's choice, [] at first.
SelecaoEstado ==
  /\ pc = "sel_estado"
  /\ pagina' = pagina \cup {"estado"}
  /\ pc' = "filtro"
  /\ UNCHANGED << raw, build, cache_ok, cache, df, ano, estado, variavel,
                  df_filtro, indicadores, casos_estado, casos_municipio,
                  casos_mapa, casos_variaveis, tela, primeira >>

\* The filter, and the number of filtered rows written in the sidebar.
Filtrar ==
  /\ pc = "filtro"
  /\ df_filtro' = filtrar(df, ano, estado)
  /\ tela' = << "registros" >>
  /\ pc' = IF df_filtro' = <<>> THEN "vazio" ELSE "indicadores"
  /\ UNCHANGED << raw, build, cache_ok, cache, df, ano, estado, variavel,
                  indicadores, casos_estado, casos_municipio, casos_mapa,
                  casos_variaveis, primeira, pagina >>

\* The warning of the empty result.
AvisoFiltros ==
  /\ pc = "vazio"
  /\ tela' = Append(tela, "aviso_filtros")
  /\ pc' = "stop"
  /\ UNCHANGED << raw, build, cache_ok, cache, df, ano, estado, variavel,
                  df_filtro, indicadores, casos_estado, casos_municipio,
                  casos_mapa, casos_variaveis, primeira, pagina >>

\* Variant: the run goes on after the warning.
StopIgnorado ==
  /\ pc = "stop"
  /\ pc' = "indicadores"
  /\ UNCHANGED << raw, build, cache_ok, cache, df, ano, estado, variavel,
                  df_filtro, indicadores, casos_estado, casos_municipio,
                  casos_mapa, casos_variaveis, tela, primeira, pagina >>

\* st.stop() ends the run: the widget the run did not reach leaves the page.
Stop ==
  /\ pc = "stop"
  /\ pagina' = {"ano", "estado"}
  /\ pc' = "parado"
  /\ UNCHANGED << raw, build, cache_ok, cache, df, ano, estado, variavel, df_filtro,
                  indicadores, casos_estado, casos_municipio, casos_mapa,
                  casos_variaveis, tela, primeira >>

Indicadores ==
  /\ pc = "indicadores"
  /\ indicadores' = indicadores_de(df_filtro)
  /\ tela' = Append(tela, "metricas")
  /\ pc' = "estado"
  /\ UNCHANGED << raw, build, cache_ok, cache, df, ano, estado, variavel,
                  df_filtro, casos_estado, casos_municipio, casos_mapa,
                  casos_variaveis, primeira, pagina >>

\* Casos por Estado: the chart is drawn whatever the aggregate holds.
CasosEstado ==
  /\ pc = "estado"
  /\ casos_estado' = casos_estado_de(df_filtro, build)
  /\ tela' = Append(tela, "grafico_estado")
  /\ pc' = "municipio"
  /\ UNCHANGED << raw, build, cache_ok, cache, df, ano, estado, variavel,
                  df_filtro, indicadores, casos_municipio, casos_mapa,
                  casos_variaveis, primeira, pagina >>

\* Top 20 Municipios
CasosMunicipio ==
  /\ pc = "municipio"
  /\ casos_municipio' = casos_municipio_de(df_filtro, build)
  /\ tela' = Append(tela, IF casos_municipio' = <<>> THEN "aviso_municipio"
                          ELSE "grafico_municipio")
  /\ pc' = "mapa"
  /\ UNCHANGED << raw, build, cache_ok, cache, df, ano, estado, variavel,
                  df_filtro, indicadores, casos_estado, casos_mapa,
                  casos_variaveis, primeira, pagina >>

\* Variant: the rows without coordinates are dropped from df itself
\* (dropna(..., inplace=True) on the loaded table).
CasosMapaInPlace ==
  /\ pc = "mapa"
  /\ df' = Rows(df, {i \in DOMAIN df :
                       df[i].lat_locali # NaN /\ df[i].long_local # NaN})
  /\ casos_mapa' = casos_mapa_de(df_filtro, df)
  /\ tela' = Append(tela, IF casos_mapa' = <<>> THEN "aviso_mapa"
                          ELSE "grafico_mapa")
  /\ pc' = "variaveis"
  /\ UNCHANGED << raw, build, cache_ok, cache, ano, estado, variavel,
                  df_filtro, indicadores, casos_estado, casos_municipio,
                  casos_variaveis, primeira, pagina >>

\* Mapa geoespacial
CasosMapa ==
  /\ pc = "mapa"
  /\ casos_mapa' = casos_mapa_de(df_filtro, df)
  /\ tela' = Append(tela, IF casos_mapa' = <<>> THEN "aviso_mapa"
                          ELSE "grafico_mapa")
  /\ pc' = "variaveis"
  /\ UNCHANGED << raw, build, cache_ok, cache, df, ano, estado, variavel,
                  df_filtro, indicadores, casos_estado, casos_municipio,
                  casos_variaveis, primeira, pagina >>

\* The value the variable selectbox returns: the user's choice, or the
\* first option.
ValorVariavel(v) == IF v # None THEN v ELSE OpcoesVariavel[1]

\* Relacao com variaveis socioambientais: the totals merged with the
\* structural base, and the selectbox of the variable.
SelecaoVariavel ==
  /\ pc = "variaveis"
  /\ casos_variaveis' = casos_variaveis_base(df_filtro, df)
  /\ variavel' = ValorVariavel(variavel)
  /\ pagina' = pagina \cup {"variavel"}
  /\ pc' = "dispersao"
  /\ UNCHANGED << raw, build, cache_ok, cache, df, ano, estado, df_filtro,
                  indicadores, casos_estado, casos_municipio, casos_mapa,
                  tela, primeira >>

\* The rows without the chosen variable are dropped; the warning or the
\* chart.
CasosVariaveis ==
  /\ pc = "dispersao"
  /\ casos_variaveis' = dropna_variavel(casos_variaveis, variavel)
  /\ tela' = Append(tela, IF casos_variaveis' = <<>> THEN "aviso_variavel"
                          ELSE "grafico_dispersao")
  /\ pc' = "fim"
  /\ UNCHANGED << raw, build, cache_ok, cache, df, ano, estado, variavel,
                  df_filtro, indicadores, casos_estado, casos_municipio,
                  casos_mapa, primeira, pagina >>

\* ------------------------------------------------------------------------
\* Widget interactions: a widget that is on the page can be changed at any
\* moment; the change abandons the run in progress, if any, and starts the
\* next run of the script.  The options of a widget are those it was drawn
\* with, from the cached table.
\* ------------------------------------------------------------------------

\* What a run that reached its end computed, with the selection it was
\* computed for.
Resultado ==
  [concluida |-> TRUE, ano |-> ano, estado |-> estado, variavel |-> variavel,
   indicadores |-> indicadores, casos_estado |-> casos_estado,
   casos_municipio |-> casos_municipio, casos_mapa |-> casos_mapa,
   casos_variaveis |-> casos_variaveis, tela |-> tela]

NovaExecucao ==
  /\ pc' = "carregar"
  /\ primeira' = IF primeira # <<>> THEN primeira
                 ELSE IF pc = "fim" THEN << Resultado >> ELSE NaoConcluida
  /\ df' = <<>>
  /\ df_filtro' = <<>>
  /\ indicadores' = SemIndicadores
  /\ casos_estado' = NaoCalculado
  /\ casos_municipio' = NaoCalculado
  /\ casos_mapa' = NaoCalculado
  /\ casos_variaveis' = NaoCalculado
  /\ tela' = <<>>
  /\ UNCHANGED << raw, build, cache_ok, cache, pagina >>

SelectAno ==
  /\ "ano" \in pagina
  /\ \E a \in {OpcoesAno(cache)[k] : k \in DOMAIN OpcoesAno(cache)} \ {ano} :
       ano' = a
  /\ UNCHANGED << estado, variavel >>
  /\ NovaExecucao

SelectEstado ==
  /\ "estado" \in pagina
  /\ \E e \in (SUBSET OpcoesEstado(cache)) \ {estado} : estado' = e
  /\ UNCHANGED << ano, variavel >>
  /\ NovaExecucao

SelectVariavel ==
  /\ "variavel" \in pagina
  /\ \E k \in DOMAIN OpcoesVariavel :
       /\ OpcoesVariavel[k] # variavel
       /\ variavel' = OpcoesVariavel[k]
  /\ UNCHANGED << ano, estado >>
  /\ NovaExecucao

Next ==
  \/ CarregarDados
  \/ SelecaoAno
  \/ SelecaoEstado
  \/ Filtrar
  \/ AvisoFiltros
  \/ Stop
  \/ Indicadores
  \/ CasosEstado
  \/ CasosMunicipio
  \/ CasosMapa
  \/ SelecaoVariavel
  \/ CasosVariaveis
  \/ SelectAno
  \/ SelectEstado
  \/ SelectVariavel

Spec == Init /\ [][Next]_vars

\* ------------------------------------------------------------------------
\* Properties
\* ------------------------------------------------------------------------

\* The run has filtered: df and df_filtro are those of the current run.
Filtrado == pc \notin {"carregar", "sel_ano", "sel_estado", "filtro"}

Idx(s) == {s[k].idx : k \in DOMAIN s}

\* The rows of the sequence s are rows of d, in the order of d, none twice.
SubTabela(s, d) ==
  /\ \A k \in DOMAIN s : s[k].idx + 1 \in DOMAIN d /\ s[k] = d[s[k].idx + 1]
  /\ \A k \in DOMAIN s : \A l \in DOMAIN s : k < l => s[k].idx < s[l].idx

\* C1: with no state selected, the filtered table holds exactly the rows of
\* the loaded table whose year is the selected year: no row of another year
\* or without year, none missing, and as many rows as the loaded table has
\* of that year.
C1_FiltroPorAno ==
  (Filtrado /\ estado = {}) =>
     /\ SubTabela(df_filtro, df)
     /\ \A k \in DOMAIN df_filtro :
          df_filtro[k].ano # NaN /\ df_filtro[k].ano = ano
     /\ Idx(df_filtro) = {df[i].idx : i \in {j \in DOMAIN df :
                                               df[j].ano # NaN /\ df[j].ano = ano}}
     /\ Len(df_filtro) =
          Cardinality({i \in DOMAIN df : df[i].ano # NaN /\ df[i].ano = ano})

\* C1 witness: a run with no state selected kept the rows of the selected
\* year and left out a row without year.
C1_Witness ==
  /\ pc = "fim" /\ estado = {}
  /\ Len(df_filtro) >= 1
  /\ \E i \in DOMAIN df : df[i].ano = NaN

\* C2: with states selected, the filtered table is the part of the result
\* for (year, no state) whose state is one of the selected states.
C2_FiltroPorEstado ==
  (Filtrado /\ estado # {}) =>
     LET base == filtrar(df, ano, {})
     IN /\ SubTabela(df_filtro, df)
        /\ Idx(df_filtro) \subseteq Idx(base)
        /\ \A k \in DOMAIN df_filtro : df_filtro[k].uf \in estado
        /\ \A j \in DOMAIN base :
             base[j].uf \in estado => base[j].idx \in Idx(df_filtro)

\* C2 witness: a run with a state selected kept some rows of the year and
\* left out others, one of them without state.
C2_Witness ==
  /\ pc = "fim" /\ estado # {}
  /\ Len(df_filtro) >= 1
  /\ \E j \in DOMAIN df : /\ df[j].ano = ano /\ df[j].uf = None
                           /\ df[j].idx \notin Idx(df_filtro)

\* C3 (as claimed): once the state totals are computed, their sum of casos
\* equals the sum of casos of the filtered table, shown as total cases.
C3_SomaPorEstado ==
  pc \in {"municipio", "mapa", "variaveis", "dispersao", "fim"} =>
     /\ SumCasos(casos_estado) = SumCasos(df_filtro)
     /\ SumCasos(casos_estado) = indicadores.total_casos

\* The section "Top 20 Municipios" of the current run is over.
MunicipioFeito == pc \in {"mapa", "variaveis", "dispersao", "fim"}

\* The (name, state) pairs of the filtered rows that have a name, and the
\* number of cases of each.
ParesNomeUf ==
  {<<df_filtro[i].nome_municipio, df_filtro[i].uf>> :
     i \in {j \in DOMAIN df_filtro : df_filtro[j].nome_municipio # None}}

CasosDoPar(p) ==
  Cardinality({i \in DOMAIN df_filtro :
                 <<df_filtro[i].nome_municipio, df_filtro[i].uf>> = p})

ParesMantidos ==
  {<<casos_municipio[k].nome_municipio, casos_municipio[k].uf>> :
     k \in DOMAIN casos_municipio}

\* C4 (as claimed): the top-municipalities aggregate has at most 20 rows, in
\* non-increasing order of casos, and no (name, state) group that is left out
\* has more cases than a row that is kept.
C4_Top20 ==
  MunicipioFeito =>
     /\ Len(casos_municipio) <= TopN
     /\ \A k \in DOMAIN casos_municipio : \A l \in DOMAIN casos_municipio :
          k < l => casos_municipio[k].casos >= casos_municipio[l].casos
     /\ \A p \in ParesNomeUf \ ParesMantidos :
          \A k \in DOMAIN casos_municipio :
             CasosDoPar(p) <= casos_municipio[k].casos

\* The first row of the filtered table that belongs to the pair p.
PrimeiraOcorrencia(p) ==
  CHOOSE i \in DOMAIN df_filtro :
    /\ <<df_filtro[i].nome_municipio, df_filtro[i].uf>> = p
    /\ \A j \in 1..(i - 1) :
         <<df_filtro[j].nome_municipio, df_filtro[j].uf>> # p

ParDe(r) == <<r.nome_municipio, r.uf>>

\* The groups that the grouping forms (name and state present).
ParesFormados == {p \in ParesNomeUf : p[2] # None}

\* C5 (as claimed): groups with equal casos appear in the order of their
\* first occurrence in the filtered table, and that order decides which of
\* the tied groups survives the cut.
C5_EmpatePorOrdemDeEntrada ==
  MunicipioFeito =>
     /\ \A k \in DOMAIN casos_municipio : \A l \in DOMAIN casos_municipio :
          (k < l /\ casos_municipio[k].casos = casos_municipio[l].casos) =>
             PrimeiraOcorrencia(ParDe(casos_municipio[k]))
               < PrimeiraOcorrencia(ParDe(casos_municipio[l]))
     /\ \A p \in ParesFormados \ ParesMantidos :
          \A k \in DOMAIN casos_municipio :
             casos_municipio[k].casos = CasosDoPar(p) =>
                PrimeiraOcorrencia(ParDe(casos_municipio[k]))
                  < PrimeiraOcorrencia(p)

\* The section of the map of the current run is over.
MapaFeito == pc \in {"variaveis", "dispersao", "fim"}

\* The first row of the loaded table with the id: its reference entry.
Referencia(id) ==
  df[CHOOSE i \in DOMAIN df :
       /\ df[i].id_municip = id
       /\ \A j \in 1..(i - 1) : df[j].id_municip # id]

SemCoordenada(r) == r.lat_locali = NaN \/ r.long_local = NaN

IdsFiltrados == {df_filtro[i].id_municip : i \in DOMAIN df_filtro} \ {NaN}

\* C6: every row of the geo aggregate has latitude and longitude; an id
\* whose reference entry lacks a coordinate is absent whatever its count;
\* an id whose reference entry has both is present once, with the count of
\* all the filtered rows of the id (the rows are summed before any is
\* dropped) and the coordinates of the reference.
C6_MapaSoComCoordenadas ==
  MapaFeito =>
     /\ \A k \in DOMAIN casos_mapa :
          /\ casos_mapa[k].lat_locali # NaN /\ casos_mapa[k].long_local # NaN
          /\ casos_mapa[k].id_municip \in IdsFiltrados
     /\ \A id \in IdsFiltrados :
          LET K == {k \in DOMAIN casos_mapa : casos_mapa[k].id_municip = id}
          IN IF SemCoordenada(Referencia(id))
             THEN K = {}
             ELSE /\ Cardinality(K) = 1
                  /\ \A k \in K :
                       /\ casos_mapa[k].casos =
                            Cardinality({i \in DOMAIN df_filtro :
                                           df_filtro[i].id_municip = id})
                       /\ casos_mapa[k].lat_locali = Referencia(id).lat_locali
                       /\ casos_mapa[k].long_local = Referencia(id).long_local

\* C6 witness: an id with a filtered row that has both coordinates is absent
\* from the geo aggregate because its reference entry lacks one.
C6_Witness ==
  /\ pc = "fim"
  /\ \E i \in DOMAIN df_filtro :
       /\ df_filtro[i].id_municip # NaN
       /\ ~ SemCoordenada(df_filtro[i])
       /\ SemCoordenada(Referencia(df_filtro[i].id_municip))
       /\ \A k \in DOMAIN casos_mapa :
            casos_mapa[k].id_municip # df_filtro[i].id_municip

NadaCalculado ==
  /\ indicadores = SemIndicadores
  /\ casos_estado = NaoCalculado
  /\ casos_municipio = NaoCalculado
  /\ casos_mapa = NaoCalculado
  /\ casos_variaveis = NaoCalculado

\* C7: a run whose filtered table is empty computes no indicator and no
\* aggregate: it writes the number of rows, shows the warning of the
\* filters and nothing else, and is stopped.
C7_FiltroVazioPara ==
  (Filtrado /\ df_filtro = <<>>) =>
     /\ pc \in {"vazio", "stop", "parado"}
     /\ NadaCalculado
     /\ tela = IF pc = "vazio" THEN << "registros" >>
               ELSE << "registros", "aviso_filtros" >>

\* C7 witness: the selected year has rows, none of a selected state, and the
\* run is stopped.
C7_Witness ==
  /\ pc = "parado"
  /\ estado # {}
  /\ \E i \in DOMAIN df : df[i].ano = ano

\* The name of the first row of the file with the id and a name.
PrimeiroNome(id) ==
  LET J == {j \in DOMAIN raw :
              raw[j].id_municip = id /\ raw[j].nome_municipio # None}
  IN IF J = {} THEN None
     ELSE raw[CHOOSE j \in J : \A l \in J : j <= l].nome_municipio

\* C8: when the table has been loaded, the reference has one entry per id
\* that has a named row, with the name of the first such row; the loaded
\* table has the rows of the file in their order, each with the reference
\* name of its id (missing when the id has no named row), so rows of one id
\* carry one name.
C8_UmNomePorId ==
  pc = "sel_ano" =>
     LET ref == referencia_municipios(raw)
     IN /\ \A k \in DOMAIN ref : \A l \in DOMAIN ref :
             ref[k].id_municip = ref[l].id_municip => k = l
        /\ \A k \in DOMAIN ref :
             /\ ref[k].nome_municipio # None
             /\ ref[k].nome_municipio = PrimeiroNome(ref[k].id_municip)
        /\ \A j \in DOMAIN raw :
             PrimeiroNome(raw[j].id_municip) # None =>
                \E k \in DOMAIN ref : ref[k].id_municip = raw[j].id_municip
        /\ Len(cache) = Len(raw)
        /\ \A i \in DOMAIN cache :
             /\ cache[i].id_municip = raw[i].id_municip
             /\ cache[i].uf = raw[i].uf
             /\ cache[i].lat_locali = raw[i].lat_locali
             /\ cache[i].long_local = raw[i].long_local
             /\ cache[i].idh = raw[i].idh
             /\ cache[i].nome_municipio = PrimeiroNome(raw[i].id_municip)
        /\ \A i \in DOMAIN cache : \A j \in DOMAIN cache :
             cache[i].id_municip = cache[j].id_municip =>
                cache[i].nome_municipio = cache[j].nome_municipio
        /\ df = cache

\* C8 witness: an id whose first row has no name and whose later rows are
\* named got the name of the first named row on every row.
C8_Witness ==
  /\ cache_ok
  /\ \E i \in DOMAIN raw : \E j \in DOMAIN raw :
       /\ i < j
       /\ raw[i].id_municip = raw[j].id_municip
       /\ raw[i].nome_municipio = None
       /\ raw[j].nome_municipio # None
       /\ cache[i].nome_municipio = cache[j].nome_municipio
       /\ cache[i].nome_municipio # None

NaTela(x) == \E k \in DOMAIN tela : tela[k] = x

\* A section reports its empty aggregate with its warning and draws its
\* chart otherwise.
SecaoAvisa(agregado, aviso, grafico) ==
  IF agregado = <<>>
  THEN NaTela(aviso) /\ ~ NaTela(grafico)
  ELSE NaTela(grafico) /\ ~ NaTela(aviso)

\* C9 (as claimed): a run with a non-empty filtered table is not stopped, and
\* when it is over each of the four sections has drawn its chart or, its
\* aggregate being empty, shown its own warning.
C9_AvisoPorSecao ==
  /\ (Filtrado /\ df_filtro # <<>>) => pc \notin {"vazio", "stop", "parado"}
  /\ pc = "fim" =>
       /\ SecaoAvisa(casos_estado, "aviso_estado", "grafico_estado")
       /\ SecaoAvisa(casos_municipio, "aviso_municipio", "grafico_municipio")
       /\ SecaoAvisa(casos_mapa, "aviso_mapa", "grafico_mapa")
       /\ SecaoAvisa(casos_variaveis, "aviso_variavel", "grafico_dispersao")

\* What a run computes for a selection, from the file alone.
ResultadoDe(a, e, v) ==
  LET d == carregar_dados(raw)
      f == filtrar(d, a, e)
  IN [indicadores     |-> indicadores_de(f),
      casos_estado    |-> casos_estado_de(f, build),
      casos_municipio |-> casos_municipio_de(f, build),
      casos_mapa      |-> casos_mapa_de(f, d),
      casos_variaveis |-> casos_variaveis_de(f, d, v)]

TabelasIntactas ==
  /\ cache_ok => cache = carregar_dados(raw)
  /\ Filtrado => df = carregar_dados(raw) /\ df_filtro = filtrar(df, ano, estado)

RepeteResultado ==
  pc = "fim" =>
     LET r == ResultadoDe(ano, estado, variavel)
     IN /\ indicadores = r.indicadores
        /\ casos_estado = r.casos_estado
        /\ casos_municipio = r.casos_municipio
        /\ casos_mapa = r.casos_mapa
        /\ casos_variaveis = r.casos_variaveis
        /\ (/\ primeira # <<>>
            /\ primeira[1].concluida
            /\ primeira[1].ano = ano
            /\ primeira[1].estado = estado
            /\ primeira[1].variavel = variavel) => primeira[1] = Resultado

\* C10: after the load and after every aggregator step, the cached table
\* and the loaded table are what carregar_dados gives from the file and the
\* filtered table is what the selection gives from the loaded table (no
\* aggregator has changed them, nor the references taken from them); what a
\* completed run has computed is what the selection gives from the file
\* alone, so a later run for the selection of the first run computes what
\* the first run computed.
C10_AgregadoresIdempotentes == TabelasIntactas /\ RepeteResultado

\* C10 witness: after other selections, a run for the selection of the first
\* run is over, with a non-empty geo aggregate.
C10_Witness ==
  /\ pc = "fim"
  /\ primeira # <<>>
  /\ primeira[1].concluida
  /\ primeira[1].ano = ano
  /\ primeira[1].estado = estado
  /\ primeira[1].variavel = variavel
  /\ casos_mapa # <<>>
  /\ \E i \in DOMAIN df : SemCoordenada(df[i])

====
